---- MODULE Spec2Model ----
(***************************************************************************)
(* Model of game_of_life.cpp: the double-buffered grid, the per-cell       *)
(* transition rule, the neighbour count, the fork-join row partition of    *)
(* check_multithread and the display/update loop of GameOfLife::start.     *)
(***************************************************************************)
EXTENDS Integers, FiniteSets, Sequences, TLC

(* ---------------------------------------------------------------- bounds *)

MaxH == 4
MaxW == 3
MaxCells == 9
MaxPattern == 2
MaxGen == 2
MaxThreads == 3
MaxBlockH == 4
MaxBlockW == 4
MaxBlinkH == 3
MaxBlinkW == 5
MaxDim == 6
MaxSource == 2
MaxLines == 3
MaxLineLen == 2
MaxArgs == 3
MaxWindow == 2
MaxRawCells == 4

(* ------------------------------------------------------ program constants *)

NUM_THREADS == 4

BLANK == " "

DEFAULT_PARTICLE == "*"

VARIABLES
    grid,         \* GameOfLife::grid, rows 0..H-1 of cells 0..W-1
    next_grid,    \* GameOfLife::next_grid
    particle,     \* GameOfLife::particle
    stale,        \* GameOfLife::stale
    pc,           \* position of the main thread in start()/update()
    num_threads,  \* argument of check_multithread
    threads,      \* the std::thread vector of check_multithread
    spawned,      \* loop index of the spawn loop
    joined,       \* number of threads already joined
    shown,        \* what display() printed last
    log,          \* the display() and update() calls of start(), in order
    gen,          \* number of completed update() calls
    call,         \* the function under call and its arguments
    ret           \* how that call ended: its value, an exit or an exception

vars == <<grid, next_grid, particle, stale, pc, num_threads, threads,
          spawned, joined, shown, log, gen,
          call, ret>>

(* ------------------------------------------------------------------ Grid *)

height(g) == Cardinality(DOMAIN g)

width(g) == Cardinality(DOMAIN g[0])

\* Grid::Grid(int height, int length): every cell blank
BlankGrid(h, w) == [i \in 0 .. h - 1 |-> [j \in 0 .. w - 1 |-> BLANK]]

\* GridEq that compares the first row only
GridEqFirstRow(a, b) ==
    /\ height(a) = height(b)
    /\ \A j \in DOMAIN a[0] : a[0][j] = b[0][j]

\* Grid::operator== : std::vector equality, sizes first, then element-wise
GridEq(a, b) ==
    /\ height(a) = height(b)
    /\ \A i \in DOMAIN a :
          /\ Cardinality(DOMAIN a[i]) = Cardinality(DOMAIN b[i])
          /\ \A j \in DOMAIN a[i] : a[i][j] = b[i][j]

(* ------------------------------------------------------- check_neighbors *)

\* The (i, j) pairs at which check_neighbors(x, y) evaluates grid[i][j].
\* The column test of the inner loop is `j < 0 || i >= grid.width()`.
NeighborReads(g, x, y) ==
    LET h == height(g)
        w == width(g)
    IN  { p \in ((x - 1) .. (x + 1)) \X ((y - 1) .. (y + 1)) :
            /\ ~(p[1] < 0 \/ p[1] >= h)
            /\ ~(p[2] < 0 \/ p[1] >= w)
            /\ (p[1] # x \/ p[2] # y) }

InGrid(g, p) ==
    /\ 0 <= p[1] /\ p[1] < height(g)
    /\ 0 <= p[2] /\ p[2] < width(g)

\* The possible return values of check_neighbors(x, y).  A read of
\* grid[i][j] with j past the end of the row is undefined behaviour: the
\* byte found there may or may not equal the particle.
check_neighbors(g, x, y) ==
    LET reads == NeighborReads(g, x, y)
        inside == { p \in reads : InGrid(g, p) }
        outside == reads \ inside
        sure == Cardinality({ p \in inside : g[p[1]][p[2]] = particle })
    IN  { sure + k : k \in 0 .. Cardinality(outside) }

(* ------------------------------------------------------- transition rule *)

\* CellRule with the overcrowding test off by one
CellRuleLate(cell, count) ==
    IF cell = particle
    THEN IF count < 2 \/ count > 4 THEN BLANK ELSE particle
    ELSE IF cell = BLANK /\ count = 3 THEN particle ELSE BLANK

\* The if/else chain of check() and check_bounded() for one cell
CellRule(cell, count) ==
    IF cell = particle
    THEN IF count < 2 \/ count > 3 THEN BLANK ELSE particle
    ELSE IF cell = BLANK /\ count = 3 THEN particle ELSE BLANK

\* check(): ng is a next grid the serial full-grid pass can leave for g
check(g, ng) ==
    /\ DOMAIN ng = DOMAIN g
    /\ \A i \in 0 .. height(g) - 1 :
          /\ DOMAIN ng[i] = DOMAIN g[i]
          /\ \A j \in 0 .. width(g) - 1 :
                \E count \in check_neighbors(g, i, j) :
                    ng[i][j] = CellRule(g[i][j], count)

(* ----------------------------------------------------- check_multithread *)

\* Band without the remainder rows for the last thread
BandNoRest(i, n, g) ==
    LET step_x == height(g) \div n
    IN  [height  |-> step_x,
         width   |-> width(g),
         start_x |-> i * step_x,
         start_y |-> 0]

\* Band with the remainder rows handed to the first thread
BandRestFirst(i, n, g) ==
    LET step_x == height(g) \div n
        rest_x == height(g) % n
    IN  [height  |-> IF i # 0 THEN step_x ELSE step_x + rest_x,
         width   |-> width(g),
         start_x |-> i * step_x,
         start_y |-> 0]

\* Arguments of the check_bounded call handed to thread i
Band(i, n, g) ==
    LET step_x == height(g) \div n
        rest_x == height(g) % n
        step_y == width(g)
    IN  [height  |-> IF i # n - 1 THEN step_x ELSE step_x + rest_x,
         width   |-> step_y,
         start_x |-> i * step_x,
         start_y |-> 0]

\* A slot of the thread vector that holds no thread yet
NoThread ==
    [st |-> "none", height |-> 0, width |-> 0, start_x |-> 0, start_y |-> 0,
     i |-> 0, j |-> 0]

\* A thread entering check_bounded(height, width, start_x, start_y); i and j
\* are its loop variables (count is assigned afresh in every iteration and
\* is not kept)
NewThread(b) ==
    [st |-> "running", height |-> b.height, width |-> b.width,
     start_x |-> b.start_x, start_y |-> b.start_y,
     i |-> b.start_x, j |-> b.start_y]

(* ------------------------------------------------------------------ Init *)

Cells(h, w) == (0 .. h - 1) \X (0 .. w - 1)

SeedGrid(h, w, alive) ==
    [i \in 0 .. h - 1 |->
        [j \in 0 .. w - 1 |-> IF <<i, j>> \in alive THEN particle ELSE BLANK]]

\* The cells of a MaxPattern x MaxPattern window with top-left corner (r, c)
Window(h, w, r, c) ==
    Cells(h, w) \cap ((r .. r + MaxPattern - 1) \X (c .. c + MaxPattern - 1))

\* Seed grids: any pattern that fits a window, anywhere on a blank canvas
Seeds(h, w) ==
    { SeedGrid(h, w, alive) :
        alive \in UNION { SUBSET Window(h, w, r, c) :
                            r \in 0 .. h - 1, c \in 0 .. w - 1 } }

\* No function-level call is under observation
NoCall == [fn |-> "none"]

NoReturn == [st |-> "none"]

\* State after GameOfLife(Grid start_grid, char particle) for a seed of `seeds`
Constructed(n, seeds) ==
    /\ particle = DEFAULT_PARTICLE
    /\ grid \in seeds
    /\ next_grid = BlankGrid(height(grid), width(grid))
    /\ stale = FALSE
    /\ pc = "start"
    /\ num_threads = n
    /\ threads = [t \in 0 .. n - 1 |-> NoThread]
    /\ spawned = 0
    /\ joined = 0
    /\ shown = <<>>
    /\ log = <<>>
    /\ gen = 0
    /\ call = NoCall
    /\ ret = NoReturn

Shapes ==
    { s \in (1 .. MaxH) \X (1 .. MaxW) : s[1] * s[2] <= MaxCells }

AllSeeds == UNION { Seeds(s[1], s[2]) : s \in Shapes }

Init == Constructed(NUM_THREADS, AllSeeds)

(* --------------------------------------------------------------- actions *)

\* start(): stale = false
Start ==
    /\ pc = "start"
    /\ stale' = FALSE
    /\ pc' = "loop"
    /\ UNCHANGED <<grid, next_grid, particle, num_threads, threads, spawned,
                   joined, shown, log, gen>>
    /\ UNCHANGED <<call, ret>>

\* while(!stale) { display(); ...
Display ==
    /\ pc = "loop"
    /\ ~stale
    /\ gen < MaxGen
    /\ shown' = grid
    /\ log' = Append(log, "display")
    /\ pc' = "update"
    /\ UNCHANGED <<grid, next_grid, particle, stale, num_threads, threads,
                   spawned, joined, gen>>
    /\ UNCHANGED <<call, ret>>

\* a loop that can end before converging
ExitEarly ==
    /\ pc = "loop"
    /\ pc' = "done"
    /\ UNCHANGED <<grid, next_grid, particle, stale, num_threads, threads,
                   spawned, joined, shown, log, gen>>
    /\ UNCHANGED <<call, ret>>

\* the loop condition fails: start() returns
Exit ==
    /\ pc = "loop"
    /\ stale
    /\ pc' = "done"
    /\ UNCHANGED <<grid, next_grid, particle, stale, num_threads, threads,
                   spawned, joined, shown, log, gen>>
    /\ UNCHANGED <<call, ret>>

\* update() enters check_multithread: empty thread vector
CheckMultithread ==
    /\ pc = "update"
    /\ threads' = [t \in 0 .. num_threads - 1 |-> NoThread]
    /\ spawned' = 0
    /\ joined' = 0
    /\ log' = Append(log, "update")
    /\ pc' = "spawn"
    /\ UNCHANGED <<grid, next_grid, particle, stale, num_threads, shown, gen>>
    /\ UNCHANGED <<call, ret>>

\* one iteration of the spawn loop, or its exit
Spawn ==
    /\ pc = "spawn"
    /\ IF spawned < num_threads
       THEN /\ threads' = [threads EXCEPT
                  ![spawned] = NewThread(Band(spawned, num_threads, grid))]
            /\ spawned' = spawned + 1
            /\ pc' = pc
       ELSE /\ pc' = "join"
            /\ UNCHANGED <<threads, spawned>>
    /\ UNCHANGED <<grid, next_grid, particle, stale, num_threads, joined,
                   shown, log, gen>>
    /\ UNCHANGED <<call, ret>>

\* one iteration of the two loops of check_bounded in thread t
CheckCell(t) ==
    LET th == threads[t] IN
    /\ th.st = "running"
    /\ th.i < th.start_x + th.height
    /\ th.j < th.start_y + th.width
    /\ \E count \in check_neighbors(grid, th.i, th.j) :
          LET last == th.j + 1 >= th.start_y + th.width IN
          /\ next_grid' = [next_grid EXCEPT
                ![th.i][th.j] = CellRule(grid[th.i][th.j], count)]
          /\ threads' = [threads EXCEPT ![t] =
                [th EXCEPT !.i = IF last THEN th.i + 1 ELSE th.i,
                           !.j = IF last THEN th.start_y ELSE th.j + 1]]
    /\ UNCHANGED <<grid, particle, stale, pc, num_threads, spawned, joined,
                   shown, log, gen>>
    /\ UNCHANGED <<call, ret>>

\* check_bounded returns in thread t
Finish(t) ==
    LET th == threads[t] IN
    /\ th.st = "running"
    /\ th.i >= th.start_x + th.height
    /\ threads' = [threads EXCEPT ![t] = [th EXCEPT !.st = "finished"]]
    /\ UNCHANGED <<grid, next_grid, particle, stale, pc, num_threads, spawned,
                   joined, shown, log, gen>>
    /\ UNCHANGED <<call, ret>>

\* a join that does not wait
JoinableAlways(t) == TRUE

\* thread.join() returns only for a thread that has finished
Joinable(t) == threads[t].st = "finished"

\* one iteration of the join loop, or its exit
Join ==
    /\ pc = "join"
    /\ IF joined < num_threads
       THEN /\ Joinable(joined)
            /\ threads' = [threads EXCEPT ![joined].st = "joined"]
            /\ joined' = joined + 1
            /\ pc' = pc
       ELSE /\ pc' = "compare"
            /\ UNCHANGED <<threads, joined>>
    /\ UNCHANGED <<grid, next_grid, particle, stale, num_threads, spawned,
                   shown, log, gen>>
    /\ UNCHANGED <<call, ret>>

\* an update that exchanges the two buffers
CompareSwap ==
    /\ pc = "compare"
    /\ IF GridEq(grid, next_grid)
       THEN /\ stale' = TRUE
            /\ UNCHANGED <<grid, next_grid>>
       ELSE /\ grid' = next_grid
            /\ next_grid' = grid
            /\ stale' = stale
    /\ gen' = gen + 1
    /\ pc' = "loop"
    /\ UNCHANGED <<particle, num_threads, threads, spawned, joined, shown,
                   log>>
    /\ UNCHANGED <<call, ret>>

\* update(): if(grid == next_grid) { stale = true; } else { grid = next_grid; }
\* followed by the sleep that ends the loop body
Compare ==
    /\ pc = "compare"
    /\ IF GridEq(grid, next_grid)
       THEN /\ stale' = TRUE
            /\ grid' = grid
       ELSE /\ grid' = next_grid
            /\ stale' = stale
    /\ gen' = gen + 1
    /\ pc' = "loop"
    /\ UNCHANGED <<next_grid, particle, num_threads, threads, spawned,
                   joined, shown, log>>
    /\ UNCHANGED <<call, ret>>

Worker == \E t \in 0 .. num_threads - 1 : CheckCell(t) \/ Finish(t)

Next ==
    \/ Start
    \/ Display
    \/ Exit
    \/ CheckMultithread
    \/ Spawn
    \/ Worker
    \/ Join
    \/ Compare

Spec == Init /\ [][Next]_vars

\* check_multithread called with any worker count 1 <= N <= height
InitN ==
    /\ \E n \in 1 .. MaxThreads : Constructed(n, AllSeeds)
    /\ num_threads <= height(grid)

SpecN == InitN /\ [][Next]_vars

\* Seed grids of at least 4 x 4 whose only alive cells are a 2 x 2 block
\* with top-left corner (r, c) that touches no edge
BlockSeeds ==
    { SeedGrid(h, w, (r .. r + 1) \X (c .. c + 1)) :
        h \in 4 .. MaxBlockH, w \in 4 .. MaxBlockW,
        r \in 1 .. MaxBlockH - 3, c \in 1 .. MaxBlockW - 3 }

IsBlockSeed(g) ==
    \E r \in 1 .. height(g) - 3, c \in 1 .. width(g) - 3 :
        g = SeedGrid(height(g), width(g), (r .. r + 1) \X (c .. c + 1))

InitBlock ==
    /\ Constructed(NUM_THREADS, BlockSeeds)
    /\ IsBlockSeed(grid)

SpecBlock == InitBlock /\ [][Next]_vars

\* The horizontal run (r, c) .. (r, c + 2) and the vertical run
\* (r - 1, c + 1) .. (r + 1, c + 1) through its centre
HorizontalBlinker(h, w, r, c) == SeedGrid(h, w, {r} \X (c .. c + 2))

VerticalBlinker(h, w, r, c) == SeedGrid(h, w, (r - 1 .. r + 1) \X {c + 1})

\* The positions (r, c) at which a horizontal blinker on an h x w grid, and
\* the vertical run it turns into, touch no edge
BlinkerPlaces(h, w) == (1 .. h - 2) \X (1 .. w - 4)

\* Seed grids whose alive cells lie on an interior horizontal run of three:
\* the whole run is the blinker, its proper parts die out
RunSeeds(h, w) ==
    { SeedGrid(h, w, alive) :
        alive \in UNION { SUBSET ({p[1]} \X (p[2] .. p[2] + 2)) :
                            p \in BlinkerPlaces(h, w) } }

BlinkerSeeds ==
    UNION { RunSeeds(s[1], s[2]) : s \in (3 .. MaxBlinkH) \X (5 .. MaxBlinkW) }

IsBlinkerSeed(g) ==
    \E p \in BlinkerPlaces(height(g), width(g)) :
        g = HorizontalBlinker(height(g), width(g), p[1], p[2])

InitBlinker ==
    /\ Constructed(NUM_THREADS, BlinkerSeeds)
    /\ height(grid) >= 3
    /\ width(grid) >= 5

SpecBlinker == InitBlinker /\ [][Next]_vars

\* a replacement that only renames the default particle
replace_default(g, _particle) ==
    [i \in DOMAIN g |->
        [j \in DOMAIN g[i] |->
            IF g[i][j] = DEFAULT_PARTICLE THEN _particle ELSE g[i][j]]]

\* replace_particle: every cell that is not ' ' becomes the particle
replace_particle(g, _particle) ==
    [i \in DOMAIN g |->
        [j \in DOMAIN g[i] |-> IF g[i][j] # BLANK THEN _particle ELSE g[i][j]]]

\* The characters of a seed before normalisation, and the alive symbols
RawChars == {BLANK, DEFAULT_PARTICLE, "x"}

Particles == {DEFAULT_PARTICLE, "o"}

\* The shapes of the seeds of up to MaxRawCells cells
RawShapes ==
    { t \in (1 .. MaxRawCells) \X (1 .. MaxRawCells) :
        t[1] * t[2] <= MaxRawCells }

\* State after GameOfLife(Grid start_grid, char particle) for a seed of any
\* characters: the members are initialised and replace_particle has run
InitRaw ==
    /\ \E s \in RawShapes, p \in Particles :
          \E g \in [0 .. s[1] - 1 -> [0 .. s[2] - 1 -> RawChars]] :
              call = [fn |-> "GameOfLife", start_grid |-> g, particle |-> p]
    /\ ret = NoReturn
    /\ particle = call.particle
    /\ grid = replace_particle(call.start_grid, call.particle)
    /\ next_grid = BlankGrid(height(grid), width(grid))
    /\ stale = FALSE
    /\ pc = "start"
    /\ num_threads = NUM_THREADS
    /\ threads = [t \in 0 .. NUM_THREADS - 1 |-> NoThread]
    /\ spawned = 0
    /\ joined = 0
    /\ shown = <<>>
    /\ log = <<>>
    /\ gen = 0

SpecRaw == InitRaw /\ [][Next]_vars

(* ------------------------------------------------- construction functions *)

\* No engine exists while a construction function is called on its own
NoEngine ==
    /\ grid = <<>>
    /\ next_grid = <<>>
    /\ particle = DEFAULT_PARTICLE
    /\ stale = FALSE
    /\ pc = "main"
    /\ num_threads = 0
    /\ threads = <<>>
    /\ spawned = 0
    /\ joined = 0
    /\ shown = <<>>
    /\ log = <<>>
    /\ gen = 0

engine == <<grid, next_grid, particle, stale, pc, num_threads, threads,
            spawned, joined, shown, log, gen>>

Pending == [st |-> "pending"]

Returned(v) == [st |-> "returned", value |-> v]

\* An exception that nothing catches (the try block of main is commented
\* out)
Thrown == [st |-> "throw"]

\* Grid::Grid(int height, int length): grid_t(height) and row_t(length, ' ')
\* take a size_type, so a negative count converts to a value above
\* max_size() and the vector constructor throws std::length_error; the rows
\* are constructed only when there is a row
GridCtor(h, w) ==
    IF h < 0 THEN Thrown
    ELSE IF h > 0 /\ w < 0 THEN Thrown
    ELSE Returned(BlankGrid(h, w))

GridAlignment ==
    {"none", "center", "top_left", "top_right", "bottom_left", "bottom_right"}

\* The values an int that was never assigned can hold; offsets beyond these
\* clip the whole source and give the same grid as the extreme ones
Uninitialized == (0 - MaxSource) .. MaxDim

\* centring on the difference of the sizes
StartOffsetsOfDifference(align, h, w, oh, ow) ==
    CASE align = "center"       -> {<<(h - oh) \div 2, (w - ow) \div 2>>}
      [] align = "top_left"     -> {<<0, 0>>}
      [] align = "top_right"    -> {<<0, w - ow>>}
      [] align = "bottom_left"  -> {<<h - oh, 0>>}
      [] align = "bottom_right" -> {<<h - oh, w - ow>>}
      [] OTHER                  -> Uninitialized \X Uninitialized

\* The switch of Grid::Grid(int, int, Grid&&, GridAlignment): the values of
\* <<start_x, start_y>> after it; the default case assigns neither
StartOffsets(align, h, w, oh, ow) ==
    CASE align = "center"       -> {<<(h \div 2) - (oh \div 2),
                                      (w \div 2) - (ow \div 2)>>}
      [] align = "top_left"     -> {<<0, 0>>}
      [] align = "top_right"    -> {<<0, w - ow>>}
      [] align = "bottom_left"  -> {<<h - oh, 0>>}
      [] align = "bottom_right" -> {<<h - oh, w - ow>>}
      [] OTHER                  -> Uninitialized \X Uninitialized

\* The blank h x w canvas after the two embedding loops: cell (i, j) is
\* assigned other[i - start_x][j - start_y] for start_x <= i < start_x + oh
\* and start_y <= j < start_y + ow, unless (i, j) is outside the canvas
Embed(h, w, other, start_x, start_y) ==
    [i \in 0 .. h - 1 |->
        [j \in 0 .. w - 1 |->
            IF /\ start_x <= i /\ i < start_x + height(other)
               /\ start_y <= j /\ j < start_y + width(other)
            THEN other[i - start_x][j - start_y]
            ELSE BLANK]]

\* Rectangular oh x ow grids of blank and non-blank cells
Sources(oh, ow) ==
    [0 .. oh - 1 -> [0 .. ow - 1 -> {BLANK, DEFAULT_PARTICLE}]]

\* exit(code), after usage() or not
Exited(code, usage) == [st |-> "exit", code |-> code, usage |-> usage]

\* The process is killed by a signal
Crashed == [st |-> "crash"]

\* The lines getline can deliver, as vectors of chars
Lines ==
    UNION { [1 .. n -> {BLANK, DEFAULT_PARTICLE}] : n \in 0 .. MaxLineLen }

\* The sizes that reading *grid.end() as a row can give; a larger size acts
\* as MaxLineLen does
EndSizes == 0 .. MaxLineLen

\* std::max(grid.begin(), grid.end(), comp)->size(): std::max(a, b, comp) is
\* comp(a, b) ? b : a for the two iterators themselves, and comp compares
\* the size of the first row with the size read through end()
MaxLength(rows) ==
    { IF Len(rows[1]) > g THEN g ELSE Len(rows[1]) : g \in EndSizes }

\* row.size() - max_length, the count passed to insert; in size_t
\* arithmetic a negative difference d stands for 2^64 + d
InsertCount(size, max_length) == size - max_length

\* row.insert(row.end(), n, ' ') throws std::length_error when n exceeds
\* max_size() - size(), as every wrapped count does
InsertThrows(n) == n < 0

\* The loop that pads: only rows shorter than max_length are touched
PadRows(rows, max_length) ==
    IF \E k \in 1 .. Len(rows) :
          /\ Len(rows[k]) < max_length
          /\ InsertThrows(InsertCount(Len(rows[k]), max_length))
    THEN Thrown
    ELSE Returned([k \in 1 .. Len(rows) |->
            IF Len(rows[k]) < max_length
            THEN rows[k] \o [n \in 1 .. InsertCount(Len(rows[k]), max_length)
                                |-> BLANK]
            ELSE rows[k]])

\* load_grid(filepath) on a file that is absent or holds `rows`; on an empty
\* file begin() equals end() and the comparison dereferences it
load_grid(open, rows) ==
    IF ~open THEN {Exited(1, FALSE)}
    ELSE IF rows = <<>> THEN {Crashed, Returned(<<>>)}
    ELSE { PadRows(rows, m) : m \in MaxLength(rows) }

\* load_grid(filepath) is called
CallLoadGrid ==
    /\ call.fn = "load_grid"
    /\ ret = Pending
    /\ ret' \in load_grid(call.open, call.rows)
    /\ UNCHANGED <<call, engine>>

\* The words of a command line: the two options, a flag that is not one, and
\* two plain words
Tokens == {"-p", "-a", "-x", "o", "top-left"}

\* optarg[0]
FirstChar(word) ==
    CASE word \in {"-p", "-a", "-x"} -> "-"
      [] word = "o" -> "o"
      [] word = "top-left" -> "t"

\* The strcmp chain of case 'a': an unknown name leaves the alignment alone
AlignmentOf(optarg, alignment) ==
    CASE optarg = "center"       -> "center"
      [] optarg = "top-left"     -> "top_left"
      [] optarg = "top-right"    -> "top_right"
      [] optarg = "bottom-left"  -> "bottom_left"
      [] optarg = "bottom-right" -> "bottom_right"
      [] OTHER                   -> alignment

\* argv[argc]
NULL == "(null)"

\* GameOfLifeParams params {}
DefaultParams ==
    [height |-> 0, width |-> 0, particle |-> DEFAULT_PARTICLE,
     filepath |-> NULL, alignment |-> "center"]

\* The while loop over getopt(argc, argv, "p:a:") from argv[k] on (argv[1]
\* is the program name). getopt takes the word after -p or -a as optarg,
\* returns '?' for -p or -a at the end and for any other flag, and moves the
\* words that are not options behind the options; `rest` collects them.
RECURSIVE getopt_loop(_, _, _, _)
getopt_loop(argv, k, params, rest) ==
    IF k > Len(argv) THEN [st |-> "end", params |-> params, rest |-> rest]
    ELSE IF argv[k] \in {"-p", "-a"}
    THEN IF k + 1 > Len(argv)
         THEN [st |-> "exit", params |-> params, rest |-> rest]
         ELSE getopt_loop(argv, k + 2,
                 IF argv[k] = "-p"
                 THEN [params EXCEPT !.particle = FirstChar(argv[k + 1])]
                 ELSE [params EXCEPT
                         !.alignment = AlignmentOf(argv[k + 1], @)],
                 rest)
    ELSE IF argv[k] = "-x"
    THEN [st |-> "exit", params |-> params, rest |-> rest]
    ELSE getopt_loop(argv, k + 1, params, Append(rest, argv[k]))

\* parse_cli_args(argc, argv) on a terminal of window[1] rows and window[2]
\* columns; optind and argc count from 0 as in the code
parse_cli_args(argv, window) ==
    LET argc == Len(argv)
        loop == getopt_loop(argv, 2, DefaultParams, <<>>)
        optind == argc - Len(loop.rest)
        size == IF window[1] < window[2] THEN window[1] ELSE window[2]
    IN  IF argc < 2 THEN Exited(1, TRUE)
        ELSE IF loop.st = "exit" THEN Exited(1, FALSE)
        ELSE IF (optind - argc) > 1 THEN Exited(1, TRUE)
        ELSE Returned([loop.params EXCEPT
                !.filepath = IF optind < argc THEN loop.rest[1] ELSE NULL,
                !.height = size,
                !.width = size])

\* parse_cli_args(argc, argv) is called
CallParseCliArgs ==
    /\ call.fn = "parse_cli_args"
    /\ ret = Pending
    /\ ret' = parse_cli_args(call.argv, call.window)
    /\ UNCHANGED <<call, engine>>

\* Grid(height, length) is called
CallGrid ==
    /\ call.fn = "Grid"
    /\ ret = Pending
    /\ ret' = GridCtor(call.height, call.length)
    /\ UNCHANGED <<call, engine>>

\* Grid(height, length, other, align) is called
CallGridAligned ==
    /\ call.fn = "GridAligned"
    /\ ret = Pending
    /\ \E start \in StartOffsets(call.align, call.height, call.length,
                                 height(call.other), width(call.other)) :
          ret' = Returned(Embed(call.height, call.length, call.other,
                                start[1], start[2]))
    /\ UNCHANGED <<call, engine>>

\* Grid(height, length) for any two ints
InitGrid ==
    \E h \in (0 - MaxDim) .. MaxDim, w \in (0 - MaxDim) .. MaxDim :
        call = [fn |-> "Grid", height |-> h, length |-> w]

\* Grid(height, length, other, align) for a canvas, a source and an
\* alignment
InitGridAligned ==
    \E h \in 1 .. MaxDim, w \in 1 .. MaxDim, a \in GridAlignment,
       s \in (1 .. MaxSource) \X (1 .. MaxSource) :
        \E o \in Sources(s[1], s[2]) :
            call = [fn |-> "GridAligned", height |-> h, length |-> w,
                    other |-> o, align |-> a]

\* load_grid(filepath) for a file that is absent or holds up to MaxLines
\* lines
InitLoadGrid ==
    \/ call = [fn |-> "load_grid", open |-> FALSE, rows |-> <<>>]
    \/ \E n \in 0 .. MaxLines :
          \E f \in [1 .. n -> Lines] :
              call = [fn |-> "load_grid", open |-> TRUE, rows |-> f]

\* parse_cli_args(argc, argv) for a command line of up to MaxArgs words
\* after the program name
InitParseCliArgs ==
    \E n \in 0 .. MaxArgs, d \in (1 .. MaxWindow) \X (1 .. MaxWindow) :
        \E a \in [1 .. n -> Tokens] :
            call = [fn |-> "parse_cli_args", argv |-> <<"gol">> \o a,
                    window |-> d]

InitCall ==
    /\ NoEngine
    /\ ret = Pending
    /\ \/ InitGrid
       \/ InitGridAligned
       \/ InitLoadGrid
       \/ InitParseCliArgs

NextCall ==
    \/ CallGrid
    \/ CallGridAligned
    \/ CallLoadGrid
    \/ CallParseCliArgs

SpecCall == InitCall /\ [][NextCall]_vars

(* ---------------------------------------------------------------- claims *)

\* The workers of a generation exist: between the spawn loop and the
\* comparison
InGeneration == pc \in {"spawn", "join", "compare"}

\* The cells for which thread t has run an iteration of check_bounded: the
\* loop positions before (i, j)
ProcessedCells(t) ==
    LET th == threads[t]
    IN  IF th.st = "none" THEN {}
        ELSE { p \in (th.start_x .. th.i)
                        \X (th.start_y .. (th.start_y + th.width - 1)) :
                 p[1] < th.i \/ p[2] < th.j }

\* The cell of the iteration thread t has run last, if any: the loop
\* position just before (i, j)
LastProcessed(t) ==
    LET th == threads[t]
    IN  IF th.st = "none" THEN {}
        ELSE IF th.j > th.start_y THEN {<<th.i, th.j - 1>>}
        ELSE IF th.i > th.start_x
             THEN {<<th.i - 1, th.start_y + th.width - 1>>}
        ELSE {}

\* The indices at which the iteration for cell p reads the current grid
Reads(p) == NeighborReads(grid, p[1], p[2]) \cup {p}

\* The alive cells among the up-to-8 adjacent positions inside the grid
TrueNeighbors(g, r, c) ==
    Cardinality({ p \in ((r - 1) .. (r + 1)) \X ((c - 1) .. (c + 1)) :
                    /\ p # <<r, c>>
                    /\ InGrid(g, p)
                    /\ g[p[1]][p[2]] = particle })

\* C1: for every cell (r,c) a worker has just processed there is a neighbour
\* count n computed for (r,c) on the current grid such that next_grid[r][c]
\* is the alive symbol iff (current is alive and n is 2 or 3) or (current is
\* blank and n is exactly 3), and blank in every other case.
C1_Rule ==
    InGeneration =>
        \A t \in DOMAIN threads : \A p \in LastProcessed(t) :
            \E n \in check_neighbors(grid, p[1], p[2]) :
                LET lives == \/ (grid[p[1]][p[2]] = particle /\ n \in {2, 3})
                             \/ (grid[p[1]][p[2]] = BLANK /\ n = 3)
                IN  /\ (next_grid[p[1]][p[2]] = particle) <=> lives
                    /\ ~lives => next_grid[p[1]][p[2]] = BLANK

\* C1 witness: a worker has just written alive a blank cell whose only
\* possible count is 3
C1_Witness ==
    /\ InGeneration
    /\ \E t \in DOMAIN threads : \E p \in LastProcessed(t) :
          /\ grid[p[1]][p[2]] = BLANK
          /\ check_neighbors(grid, p[1], p[2]) = {3}
          /\ next_grid[p[1]][p[2]] = particle

\* C2: check_neighbors(r,c) returns exactly the number of alive cells among
\* the up-to-8 adjacent positions that lie inside [0,H) x [0,W).
C2_ExactCount ==
    InGeneration =>
        \A t \in DOMAIN threads : \A p \in ProcessedCells(t) :
            check_neighbors(grid, p[1], p[2])
                = {TrueNeighbors(grid, p[1], p[2])}

\* C3: every index at which the current grid is read or the next grid is
\* written during a generation lies inside [0,H) x [0,W).
C3_InBounds ==
    InGeneration =>
        \A t \in DOMAIN threads : \A p \in ProcessedCells(t) :
            /\ \A q \in Reads(p) : InGrid(grid, q)
            /\ InGrid(next_grid, p)

\* The rows of the band of thread t
BandRows(t) ==
    threads[t].start_x .. (threads[t].start_x + threads[t].height - 1)

\* The cells of grid g that are alive
Alive(g) == { p \in Cells(height(g), width(g)) : g[p[1]][p[2]] = particle }

\* Thread t has been spawned in this generation
Spawned(t) == threads[t].st # "none"

\* Thread t has run check_bounded over its whole band and has been joined
Done(t) ==
    /\ threads[t].st = "joined"
    /\ threads[t].i >= threads[t].start_x + threads[t].height

\* C4: for any worker count 1 <= N <= height and every interleaving, the
\* next grid left by check_multithread(N) once all workers are joined is a
\* next grid of the serial full-grid pass check() on the same current grid.
C4_SameAsSerial == pc = "compare" => check(grid, next_grid)

\* C4 witness: two workers have computed a generation of a 3-row grid in
\* which some cell is alive
C4_Witness ==
    /\ pc = "compare"
    /\ num_threads = 2
    /\ height(grid) = 3
    /\ Alive(next_grid) # {}

\* C5: while the workers of a generation run, each worker reads only cells
\* of the current grid and writes only rows of the next grid inside its own
\* band, no cell of the next grid is written by two workers, and the current
\* grid is not written before all workers are joined.
C5_NoRace ==
    /\ InGeneration =>
          \A t \in DOMAIN threads : \A p \in ProcessedCells(t) :
              /\ \A q \in Reads(p) : InGrid(grid, q)
              /\ p[1] \in BandRows(t)
    /\ \A t, u \in DOMAIN threads :
          (t # u /\ Spawned(t) /\ Spawned(u)) => BandRows(t) \cap BandRows(u) = {}
    /\ InGeneration => grid = shown

\* C6: the comparison, the replacement of the current grid and the next
\* display happen only after every worker of the generation has finished its
\* whole band and been joined; the grid about to be displayed is the whole
\* next generation of the grid displayed before, never a mixture.
C6_Barrier ==
    /\ (pc = "compare" \/ (pc \in {"loop", "update", "done"} /\ gen > 0)) =>
          \A t \in DOMAIN threads : Done(t)
    /\ (pc = "loop" /\ gen > 0) =>
          IF stale THEN grid = shown ELSE check(shown, grid)

\* C6 witness: a second generation is about to be displayed after four
\* workers, two of them with rows to process, were joined
C6_Witness ==
    /\ pc = "loop"
    /\ gen = 2
    /\ ~stale
    /\ Cardinality({ t \in DOMAIN threads : threads[t].height > 0 }) >= 2

\* C7: for H >= N >= 1 worker i < N-1 gets rows [i*(H/N), (i+1)*(H/N)), the
\* last worker gets rows [(N-1)*(H/N), H); every band spans all columns, the
\* bands are pairwise disjoint and their union is exactly the rows 0..H-1.
C7_Bands ==
    pc = "join" =>
        LET H == height(grid)
            N == num_threads
            q == H \div N
        IN  /\ \A t \in 0 .. N - 1 :
                  /\ BandRows(t) = IF t < N - 1
                                   THEN (t * q) .. ((t + 1) * q - 1)
                                   ELSE ((N - 1) * q) .. (H - 1)
                  /\ threads[t].start_y = 0
                  /\ threads[t].width = width(grid)
            /\ \A t, u \in 0 .. N - 1 :
                  t # u => BandRows(t) \cap BandRows(u) = {}
            /\ UNION { BandRows(t) : t \in 0 .. N - 1 } = 0 .. (H - 1)

\* C7 witness: the rows do not divide evenly among several workers
C7_Witness ==
    /\ pc = "join"
    /\ num_threads >= 2
    /\ height(grid) % num_threads # 0

\* C8: update() sets stale exactly when the freshly computed next grid equals
\* the current grid cell for cell, and then leaves the current grid
\* unchanged; when they differ stale is not set and the current grid
\* afterwards holds the freshly computed generation.
C8_Update ==
    (pc = "loop" /\ gen > 0) =>
        /\ stale <=> (next_grid = shown)
        /\ stale => grid = shown
        /\ ~stale => (grid = next_grid /\ grid # shown)

\* C8 witness: a first update replaced the grid and a second one converged
\* on a grid that is not blank
C8_Witness ==
    /\ pc = "loop"
    /\ gen = 2
    /\ stale
    /\ Alive(grid) # {}

\* C9: in start() display and update strictly alternate, beginning with a
\* display of the current grid before every update; nothing is displayed or
\* updated once an update has set stale, and the loop only ends converged.
C9_Loop ==
    /\ \A k \in 1 .. Len(log) :
          log[k] = IF k % 2 = 1 THEN "display" ELSE "update"
    /\ pc \in {"loop", "done"} => Len(log) = 2 * gen
    /\ pc = "update" => (Len(log) = 2 * gen + 1 /\ shown = grid)
    /\ pc \in {"spawn", "join", "compare"} =>
          (Len(log) = 2 * gen + 2 /\ shown = grid)
    /\ stale => pc \in {"loop", "done"}
    /\ pc = "done" => stale
    /\ (pc = "loop" /\ ~stale /\ gen < MaxGen) => ENABLED Display

\* C9 witness: start() has returned after two displays and two updates
C9_Witness ==
    /\ pc = "done"
    /\ log = <<"display", "update", "display", "update">>

\* C10: on a grid of at least 4 x 4 whose only alive cells are a 2 x 2 block
\* touching no edge, update() leaves the current grid identical to the
\* starting grid, and stale is set by the second call of update().
C10_StillLife ==
    /\ gen >= 1 => (IsBlockSeed(grid) /\ grid = shown)
    /\ (gen >= 2 /\ pc = "loop") => stale

\* C11: on a grid whose only alive cells are an interior horizontal run of
\* three, the first update() leaves exactly the vertical run through the
\* same centre, an update() of that vertical run restores the horizontal
\* run, and stale is set by neither.
C11_Blinker ==
    (pc = "loop" /\ gen >= 1) =>
        \A p \in BlinkerPlaces(height(grid), width(grid)) :
            LET hor == HorizontalBlinker(height(grid), width(grid), p[1], p[2])
                ver == VerticalBlinker(height(grid), width(grid), p[1], p[2])
            IN  /\ (gen = 1 /\ shown = hor) => (grid = ver /\ ~stale)
                /\ shown = ver => (grid = hor /\ ~stale)

\* C12: on an all-blank grid the first update() computes a next grid equal
\* to the current one and sets stale, so that start() returns after exactly
\* one update.
C12_Blank ==
    /\ (pc = "compare" /\ gen = 0 /\ Alive(grid) = {}) => next_grid = grid
    /\ (pc \in {"loop", "done"} /\ gen = 1 /\ Alive(shown) = {}) =>
            (stale /\ grid = shown)

\* The row and column offsets of an alignment: the centre puts them at
\* target_dim / 2 - source_dim / 2, a corner at 0 or target_dim - source_dim
OffsetRow(align, h, oh) ==
    CASE align = "center" -> (h \div 2) - (oh \div 2)
      [] align \in {"top_left", "top_right"} -> 0
      [] align \in {"bottom_left", "bottom_right"} -> h - oh

OffsetCol(align, w, ow) ==
    CASE align = "center" -> (w \div 2) - (ow \div 2)
      [] align \in {"top_left", "bottom_left"} -> 0
      [] align \in {"top_right", "bottom_right"} -> w - ow

C14_None ==
    (call.fn = "GridAligned" /\ call.align = "none" /\ ret.st = "returned") =>
        ret.value = BlankGrid(call.height, call.length)

\* The length of the longest of the rows
Longest(rows) ==
    IF rows = <<>> THEN 0
    ELSE CHOOSE n \in { Len(rows[k]) : k \in 1 .. Len(rows) } :
            \A k \in 1 .. Len(rows) : Len(rows[k]) <= n

\* C15: load_grid of a readable file with at least one line returns its
\* lines, each padded with trailing blanks to the length of the longest line.
C15_Padded ==
    (call.fn = "load_grid" /\ call.open /\ call.rows # <<>> /\ ret # Pending) =>
        /\ ret.st = "returned"
        /\ Len(ret.value) = Len(call.rows)
        /\ \A k \in 1 .. Len(call.rows) :
              /\ Len(ret.value[k]) = Longest(call.rows)
              /\ SubSeq(ret.value[k], 1, Len(call.rows[k])) = call.rows[k]
              /\ \A n \in Len(call.rows[k]) + 1 .. Longest(call.rows) :
                    ret.value[k][n] = BLANK

\* C16: Grid(height, width) fails when height <= 0 or width <= 0, and
\* otherwise is the height x width grid of blank cells.
C16_Positive ==
    (call.fn = "Grid" /\ ret # Pending) =>
        IF call.height <= 0 \/ call.length <= 0
        THEN ret.st # "returned"
        ELSE /\ ret.st = "returned"
             /\ height(ret.value) = call.height
             /\ width(ret.value) = call.length
             /\ \A q \in Cells(call.height, call.length) :
                   ret.value[q[1]][q[2]] = BLANK

\* Every word from argv[k] on is -p or -a followed by its value: no word is
\* left to name the seed file
RECURSIVE OnlyOptions(_, _)
OnlyOptions(argv, k) ==
    \/ k > Len(argv)
    \/ /\ k + 1 <= Len(argv)
       /\ argv[k] \in {"-p", "-a"}
       /\ argv[k + 1] \in {"o", "top-left"}
       /\ OnlyOptions(argv, k + 2)

\* C17: when the seed-file argument is missing, with or without -p and -a,
\* or the first argument is an unknown flag, parse_cli_args prints the usage
\* text and exits with status 1; it does not return parameters from which an
\* engine would be built.
C17_Usage ==
    (/\ call.fn = "parse_cli_args"
     /\ ret # Pending
     /\ \/ OnlyOptions(call.argv, 2)
        \/ (Len(call.argv) >= 2 /\ call.argv[2] = "-x")) =>
        ret = Exited(1, TRUE)

\* C18 as stated: when the new generation differs, update() exchanges the
\* buffers, so that afterwards the next grid holds the grid that was current
\* before the call.
C18_Swap ==
    (pc = "loop" /\ gen > 0 /\ ~stale) => next_grid = shown

\* C18: when the new generation differs, update() copies the next grid into
\* the current grid: afterwards both hold the new generation, and neither
\* holds the grid that was current before the call.
C18_Copy ==
    (pc = "loop" /\ gen > 0 /\ ~stale) =>
        /\ next_grid = grid
        /\ next_grid # shown
        /\ check(shown, next_grid)

\* C18 witness: a first update() that changed the grid has returned
C18_Witness ==
    /\ pc = "loop"
    /\ gen = 1
    /\ ~stale
    /\ Alive(shown) # {}
    /\ Alive(grid) # {}
    /\ next_grid = grid

\* C19: construction turns every non-blank character of the seed into the
\* alive symbol and leaves blanks blank, and after construction and after any
\* number of update() calls every cell of the current grid is blank or the
\* alive symbol.
C19_Normalised ==
    /\ particle = call.particle
    /\ \A q \in Cells(height(grid), width(grid)) :
          grid[q[1]][q[2]] \in {BLANK, particle}
    /\ pc = "start" =>
          /\ DOMAIN grid = DOMAIN call.start_grid
          /\ \A q \in Cells(height(grid), width(grid)) :
                /\ DOMAIN grid[q[1]] = DOMAIN call.start_grid[q[1]]
                /\ grid[q[1]][q[2]] =
                      IF call.start_grid[q[1]][q[2]] # BLANK
                      THEN particle ELSE BLANK

\* C19 witness: a seed with a character that is neither blank nor the
\* default particle, run with another alive symbol, has alive cells after
\* two update() calls
C19_Witness ==
    /\ gen = 2
    /\ particle = "o"
    /\ \E q \in Cells(height(grid), width(grid)) :
          /\ call.start_grid[q[1]][q[2]] = "x"
          /\ grid[q[1]][q[2]] = "o"

\* C20: when the grid has fewer rows than NUM_THREADS workers, the first
\* NUM_THREADS - 1 workers get empty bands that start at row 0 and write
\* nothing, the last worker gets the rows [0, H), and once all are joined
\* every cell of the next grid has been written exactly once, with a result
\* of the serial pass.
C20_FewRows ==
    (num_threads = NUM_THREADS /\ height(grid) < NUM_THREADS
        /\ pc \in {"join", "compare"}) =>
        /\ \A t \in 0 .. num_threads - 2 :
              /\ threads[t].start_x = 0
              /\ BandRows(t) = {}
              /\ ProcessedCells(t) = {}
        /\ BandRows(num_threads - 1) = 0 .. height(grid) - 1
        /\ pc = "compare" =>
              /\ \A q \in Cells(height(grid), width(grid)) :
                    Cardinality({ t \in 0 .. num_threads - 1 :
                                    q \in ProcessedCells(t) }) = 1
              /\ check(grid, next_grid)

\* C20 witness: the four workers of a three-row grid are joined and the
\* next grid has alive cells
C20_Witness ==
    /\ pc = "compare"
    /\ num_threads = NUM_THREADS
    /\ height(grid) = 3
    /\ Alive(grid) # {}
    /\ Alive(next_grid) # {}
    /\ ProcessedCells(num_threads - 1) = Cells(3, width(grid))

====
